---- MODULE Spec2Model ----
(***************************************************************************)
(* The StackOne adapter of pydantic_ai (pydantic_ai/ext/stackone.py):      *)
(* tool_from_stackone and StackOneToolset.__init__ as state machines over  *)
(* the calls they make on the StackOne SDK and on the host framework.      *)
(* The SDK and the host framework are the environment: what they return is *)
(* drawn from small sets, and every call made on them is recorded, in      *)
(* order, in the variable calls.                                           *)
(***************************************************************************)
EXTENDS Naturals, Sequences, FiniteSets, TLC

\* ------------------------------------------------------------------ bounds
\* Longest `tools` argument given to StackOneToolset.
MaxTools == 1
\* Longest `filter_pattern` list given to StackOneToolset.
MaxPatterns == 1
\* Largest collection the SDK returns from one fetch_tools call.
MaxFetch == 2

\* ----------------------------------------------------------- Python values
\* Python's None where a str is expected (str | None parameters and fields).
None == "<None>"

\* A JSON schema as the SDK yields it ('parameters' of an OpenAI function).
NoDict == [type |-> "", properties |-> {}]

\* A Python value passed as an argument: None, a str, a list of str, a float,
\* a dict (a JSON schema), a reference to an object (by the object's name), or
\* a dict of keyword arguments (a set of key/value pairs).
PyNone == [kind |-> "NoneType", s |-> "", l |-> <<>>, d |-> NoDict, m |-> {}]
PyStr(s) == [kind |-> "str", s |-> s, l |-> <<>>, d |-> NoDict, m |-> {}]
PyList(l) == [kind |-> "list", s |-> "", l |-> l, d |-> NoDict, m |-> {}]
PyFloat(s) == [kind |-> "float", s |-> s, l |-> <<>>, d |-> NoDict, m |-> {}]
PyDict(d) == [kind |-> "dict", s |-> "", l |-> <<>>, d |-> d, m |-> {}]
PyRef(s) == [kind |-> "ref", s |-> s, l |-> <<>>, d |-> NoDict, m |-> {}]
PyTuple(l) == [kind |-> "tuple", s |-> "", l |-> l, d |-> NoDict, m |-> {}]
PyKwargs(m) == [kind |-> "dict", s |-> "", l |-> <<>>, d |-> NoDict, m |-> m]

\* A str | None value as a Python value.
PyOpt(s) == IF s = None THEN PyNone ELSE PyStr(s)

\* Python truthiness of a str | None value (`if base_url`, `description or ''`).
Truthy(s) == s # None /\ s # ""

\* One recorded call: the callee, its positional and its keyword arguments,
\* the object a method is called on and the value the call returned (both None
\* where the model has no use for them).
Call(fn, pos, kw) == [fn |-> fn, pos |-> pos, kw |-> kw, on |-> PyNone, ret |-> PyNone]
CallOn(on, fn, pos, kw) == [Call(fn, pos, kw) EXCEPT !.on = on]
Kw(k, v) == [k |-> k, v |-> v]

\* All sequences over S of length at most n.
SeqUpTo(S, n) == UNION {[1..k -> S] : k \in 0..n}

\* ------------------------------------------------------- the SDK's objects
SchemaLimit == [type |-> "object", properties |-> {"limit"}]
SchemaEmpty == [type |-> "object", properties |-> {}]

\* A StackOneTool: the three fields the adapter reads.
StackOneTool(name, description, parameters) ==
    [name |-> name, description |-> description, parameters |-> parameters]

\* The tools the remote catalogue holds.
Catalogue ==
    { StackOneTool("hris_list_employees", "List all employees", SchemaLimit),
      StackOneTool("hris_get_employee", "", SchemaLimit),
      StackOneTool("ats_get_job", None, SchemaEmpty) }

\* The SDK's meta-tools and its feedback tool.
ToolSearch == StackOneTool("tool_search", "Search for tools", SchemaLimit)
ToolExecute == StackOneTool("tool_execute", "Execute a tool", SchemaEmpty)
FeedbackTool == StackOneTool("meta_collect_tool_feedback", "Collect feedback", SchemaEmpty)

\* StackOneTool.to_openai_function(): the OpenAI-style function description.
to_openai_function(stackone_tool) ==
    [type |-> "function",
     function |-> [name |-> stackone_tool.name,
                   description |-> stackone_tool.description,
                   parameters |-> stackone_tool.parameters]]

\* Tools.get_tool(name): the collection's tool of that name, <<>> for None.
get_tool(tools, name) ==
    IF \E i \in 1..Len(tools) : tools[i].name = name
    THEN LET i == CHOOSE j \in 1..Len(tools) :
                      /\ tools[j].name = name
                      /\ \A k \in 1..(j - 1) : tools[k].name # name
         IN <<tools[i]>>
    ELSE <<>>

\* ------------------------------------------------------------ the adapter
\* A pydantic_ai Tool as Tool.from_schema builds it; `function` is the closure
\* `implementation`, which holds the StackOne tool it will execute.
Tool(name, description, json_schema, stackone_tool) ==
    [name |-> name, description |-> description, json_schema |-> json_schema,
     function |-> [closure |-> "implementation", stackone_tool |-> stackone_tool]]

\* `stackone_tool.description or ''`.
DescriptionOrEmpty(description) == IF Truthy(description) THEN description ELSE ""

\* As _tool_from_stackone_tool, with `description=stackone_tool.description`
\* (the `or ''` forgotten).
_tool_from_stackone_tool_raw_description(stackone_tool) ==
    Tool(stackone_tool.name, stackone_tool.description,
         to_openai_function(stackone_tool).function.parameters, stackone_tool)

\* _tool_from_stackone_tool(stackone_tool): the Tool it returns.
_tool_from_stackone_tool(stackone_tool) ==
    LET openai_function == to_openai_function(stackone_tool)
        json_schema == openai_function.function.parameters
    IN Tool(stackone_tool.name, DescriptionOrEmpty(stackone_tool.description),
            json_schema, stackone_tool)

\* _tool_from_stackone_tool(stackone_tool): the calls it makes, in order.
WrapCalls(stackone_tool) ==
    LET t == _tool_from_stackone_tool(stackone_tool)
    IN << Call("to_openai_function", <<PyRef(stackone_tool.name)>>, {}),
          Call("Tool.from_schema", <<>>,
               { Kw("function", PyRef("implementation")),
                 Kw("name", PyStr(t.name)),
                 Kw("description", PyStr(t.description)),
                 Kw("json_schema", PyDict(t.json_schema)) }) >>

\* _tool_from_stackone_tool(stackone_tool) when the SDK's to_openai_function
\* raises: the one call made before the exception leaves the function.
WrapFailedCalls(stackone_tool) ==
    << Call("to_openai_function", <<PyRef(stackone_tool.name)>>, {}) >>

\* As ClientKwargs, with `if base_url is not None` for `if base_url`.
ClientKwargs_not_none(api_key, account_id, base_url) ==
    { Kw("api_key", PyOpt(api_key)), Kw("account_id", PyOpt(account_id)) }
      \cup (IF base_url # None THEN {Kw("base_url", PyStr(base_url))} ELSE {})

\* The keyword arguments StackOneToolSet(...) is constructed with:
\* api_key, account_id and **({'base_url': base_url} if base_url else {}).
ClientKwargs(api_key, account_id, base_url) ==
    { Kw("api_key", PyOpt(api_key)), Kw("account_id", PyOpt(account_id)) }
      \cup (IF Truthy(base_url) THEN {Kw("base_url", PyStr(base_url))} ELSE {})

\* As AfterRaise, with a tool that cannot be wrapped ending the loop.
AfterRaise_skip_tool(at) == IF at = "direct" THEN "feedback" ELSE "done"

\* As AfterRaise, with a failed fetch or lookup tried again.
AfterRaise_retry(at) == IF at \in {"fetch", "lookup"} THEN "fetch" ELSE "done"

\* No statement of the adapter's functions is inside a try block: an exception
\* raised at any position leaves the function at once.
AfterRaise(at) == "done"

\* The call that fetches from the SDK client: fetch_tools(actions=actions).
FetchCall(actions) == Call("fetch_tools", <<>>, {Kw("actions", actions)})

\* As NotFoundMessage, the f-string without its placeholder filled.
NotFoundMessage_no_name(tool_name) == "Tool not found in StackOne"

\* f"Tool '{tool_name}' not found in StackOne".
NotFoundMessage(tool_name) == "Tool '" \o tool_name \o "' not found in StackOne"

\* ------------------------------------------------------------------ inputs
ApiKeys == {None, "test-key"}
AccountIds == {None, "test-account"}
BaseUrls == {None, "", "https://custom.api.stackone.com"}
ToolNames == {"hris_list_employees"}
LookupNames == {t.name : t \in Catalogue} \cup {"unknown_tool"}
Patterns == {"hris_*"}
HybridAlphas == {PyNone, PyFloat("0.5")}
ToolsetIds == {None}

\* What one fetch_tools call can return: catalogue tools, each at most once.
Fetches ==
    {f \in SeqUpTo(Catalogue, MaxFetch) : \A i, j \in 1..Len(f) : f[i] = f[j] => i = j}

\* ------------------------------------------------------------------- state
VARIABLES
    op,             \* the adapter function running: "idle" when none is
    pc,             \* the position inside it
    args,           \* the arguments it was called with
    actions,        \* local `actions`: the filter handed to fetch_tools
    fetched_tools,  \* local `tools` / `fetched_tools`: what fetch_tools returned
    stackone_tool,  \* local `stackone_tool`: what get_tool returned (<<>> is None)
    pydantic_tools, \* local `pydantic_tools`
    utility_tools,  \* local `utility_tools` of search_tool / execute_tool called on
                    \* their own (inside StackOneToolset.__init__ it is the \E-bound u)
    outcome,        \* how the function ended: its return value or its exception
    toolset,        \* the FunctionToolset part of the StackOneToolset under construction
    calls,          \* every call made on the SDK and the host framework, in order
    environ,        \* what os.environ.get('STACKONE_API_KEY') returned, once read
    installed,      \* whether the stackone_ai package can be imported
    modules         \* sys.modules: the modules imported so far

vars == <<op, pc, args, actions, fetched_tools, stackone_tool, pydantic_tools,
          utility_tools, outcome, toolset, calls, environ, installed, modules>>

NoArgs ==
    [tool_name |-> None, tools |-> PyNone, account_id |-> None, api_key |-> None,
     base_url |-> None, filter_pattern |-> PyNone, include_utility_tools |-> FALSE,
     include_feedback_tool |-> FALSE, hybrid_alpha |-> PyNone, id |-> None,
     kwargs |-> {}]

NoOutcome == [kind |-> "none", exc |-> "", msg |-> "", value |-> <<>>]
Returned(value) == [kind |-> "returned", exc |-> "", msg |-> "", value |-> value]
Raised(exc, msg) == [kind |-> "raised", exc |-> exc, msg |-> msg, value |-> <<>>]

\* The exception of _tool_from_stackone_tool when to_openai_function raises.
WrapFailure == Raised("StackOneError", "to_openai_function failed")

\* The environment variable has not been read by the running function.
Unread == "<unread>"

NoToolset == [initialised |-> FALSE, tools |-> <<>>, id |-> None]

Init ==
    /\ op = "idle"
    /\ pc = "idle"
    /\ args = NoArgs
    /\ actions = PyNone
    /\ fetched_tools = <<>>
    /\ stackone_tool = <<>>
    /\ pydantic_tools = <<>>
    /\ utility_tools = <<>>
    /\ outcome = NoOutcome
    /\ toolset = NoToolset
    /\ calls = <<>>
    /\ environ = Unread
    /\ installed \in BOOLEAN
    /\ modules = {}

\* ------------------------------------------------------ tool_from_stackone
\* Lines 43-65: the call, and the construction of the SDK client.
tool_from_stackone_call ==
    /\ op = "idle"
    /\ "pydantic_ai.ext.stackone" \in modules
    /\ \E tool_name \in LookupNames, account_id \in AccountIds,
          api_key \in ApiKeys, base_url \in BaseUrls :
          /\ args' = [NoArgs EXCEPT !.tool_name = tool_name, !.account_id = account_id,
                                    !.api_key = api_key, !.base_url = base_url]
          /\ calls' = <<Call("StackOneToolSet", <<>>,
                             ClientKwargs(api_key, account_id, base_url))>>
          /\ actions' = PyList(<<tool_name>>)
    /\ op' = "tool_from_stackone"
    /\ pc' = "fetch"
    /\ UNCHANGED <<fetched_tools, stackone_tool, pydantic_tools, outcome, toolset, environ>>
    /\ UNCHANGED <<utility_tools, installed, modules>>

\* Line 67: tools = stackone_toolset.fetch_tools(actions=[tool_name]); the SDK
\* returns a collection or raises.
tool_from_stackone_fetch ==
    /\ op = "tool_from_stackone"
    /\ pc = "fetch"
    /\ calls' = Append(calls, FetchCall(actions))
    /\ \/ \E fetched \in Fetches :
             /\ fetched_tools' = fetched
             /\ pc' = "lookup"
             /\ UNCHANGED outcome
       \/ /\ outcome' = Raised("StackOneError", "fetch_tools failed")
          /\ pc' = AfterRaise(pc)
          /\ UNCHANGED fetched_tools
    /\ UNCHANGED <<op, args, actions, stackone_tool, pydantic_tools, toolset, environ>>
    /\ UNCHANGED <<utility_tools, installed, modules>>

\* Lines 68-70: stackone_tool = tools.get_tool(tool_name); None raises ValueError.
tool_from_stackone_lookup ==
    /\ op = "tool_from_stackone"
    /\ pc = "lookup"
    /\ calls' = Append(calls, Call("get_tool", <<PyStr(args.tool_name)>>, {}))
    /\ stackone_tool' = get_tool(fetched_tools, args.tool_name)
    /\ IF stackone_tool' = <<>>
       THEN /\ outcome' = Raised("ValueError", NotFoundMessage(args.tool_name))
            /\ pc' = AfterRaise(pc)
       ELSE /\ pc' = "wrap"
            /\ UNCHANGED outcome
    /\ UNCHANGED <<op, args, actions, fetched_tools, pydantic_tools, toolset, environ>>
    /\ UNCHANGED <<utility_tools, installed, modules>>

\* Line 72: return _tool_from_stackone_tool(stackone_tool).
tool_from_stackone_wrap ==
    /\ op = "tool_from_stackone"
    /\ pc = "wrap"
    /\ \/ /\ calls' = calls \o WrapCalls(stackone_tool[1])
          /\ outcome' = Returned(<<_tool_from_stackone_tool(stackone_tool[1])>>)
          /\ pc' = "done"
       \/ /\ calls' = calls \o WrapFailedCalls(stackone_tool[1])
          /\ outcome' = WrapFailure
          /\ pc' = AfterRaise(pc)
    /\ UNCHANGED <<op, args, actions, fetched_tools, stackone_tool, pydantic_tools,
                   toolset, environ>>
    /\ UNCHANGED <<utility_tools, installed, modules>>

\* ------------------------------------------------------------------ imports
\* Line 14 (the source quotes the package name with backquotes, which a TLA+
\* string cannot hold; single quotes stand for them).
InstallMessage == "Please install 'stackone-ai' to use StackOne tools."

\* Lines 11-14 of stackone.py: the module body imports the SDK and turns a
\* failure into an ImportError carrying the install message.
stackone_module_body(sdk_installed) ==
    IF sdk_installed THEN Returned(<<>>) ELSE Raised("ImportError", InstallMessage)

\* As ext_module_body, without the try/except around the import.
ext_module_body_unguarded(stackone_outcome) == stackone_outcome

\* Lines 2-5 of ext/__init__.py: the package body imports the stackone
\* submodule and swallows an ImportError; anything else propagates.
ext_module_body(stackone_outcome) ==
    IF stackone_outcome.kind = "raised" /\ stackone_outcome.exc = "ImportError"
    THEN Returned(<<>>)
    ELSE stackone_outcome

\* The modules in sys.modules after the import machinery ran the bodies: a
\* module whose body raised is not kept.
Loaded(ext_outcome, stackone_outcome) ==
    (IF ext_outcome.kind = "returned" THEN {"pydantic_ai.ext"} ELSE {})
    \cup (IF stackone_outcome.kind = "returned"
          THEN {"pydantic_ai.ext.stackone", "stackone_ai"} ELSE {})

\* `import pydantic_ai.ext`: runs the package body unless already imported.
import_ext ==
    /\ op = "idle"
    /\ LET ext_outcome == ext_module_body(stackone_module_body(installed)) IN
         IF "pydantic_ai.ext" \in modules
         THEN /\ outcome' = Returned(<<>>)
              /\ UNCHANGED modules
         ELSE /\ outcome' = ext_outcome
              /\ modules' = modules \cup Loaded(ext_outcome, stackone_module_body(installed))
    /\ op' = "import pydantic_ai.ext"
    /\ pc' = "done"
    /\ UNCHANGED <<args, actions, fetched_tools, stackone_tool, pydantic_tools, toolset,
                   calls, environ, installed, utility_tools>>

\* `import pydantic_ai.ext.stackone`: the parent package is imported first
\* (its body runs the submodule's body and swallows the failure), then the
\* submodule itself, whose body runs again when the first run raised.
import_stackone ==
    /\ op = "idle"
    /\ LET ext_outcome == IF "pydantic_ai.ext" \in modules
                          THEN Returned(<<>>)
                          ELSE ext_module_body(stackone_module_body(installed))
           after_parent == IF "pydantic_ai.ext" \in modules
                           THEN modules
                           ELSE modules \cup Loaded(ext_outcome, stackone_module_body(installed))
       IN  IF ext_outcome.kind = "raised"
           THEN /\ outcome' = ext_outcome
                /\ modules' = after_parent
           ELSE IF "pydantic_ai.ext.stackone" \in after_parent
           THEN /\ outcome' = Returned(<<>>)
                /\ modules' = after_parent
           ELSE /\ outcome' = stackone_module_body(installed)
                /\ modules' = after_parent
                               \cup Loaded(ext_outcome, stackone_module_body(installed))
    /\ op' = "import pydantic_ai.ext.stackone"
    /\ pc' = "done"
    /\ UNCHANGED <<args, actions, fetched_tools, stackone_tool, pydantic_tools, toolset,
                   calls, environ, installed, utility_tools>>

\* ---------------------------------------------------------- implementation
\* The keyword arguments the host framework invokes a wrapped tool with.
KwargsInputs ==
    { {}, {Kw("limit", PyStr("10"))},
      {Kw("limit", PyStr("10")), Kw("cursor", PyStr("abc"))} }

\* What StackOneTool.execute can return.
ExecuteResults == {PyDict(SchemaEmpty), PyStr("success")}

\* As ExecuteArguments, with execute(**kwargs) for execute(kwargs).
ExecuteArguments_unpacked(kwargs) == [pos |-> <<>>, kw |-> kwargs]

\* Line 33: the arguments of stackone_tool.execute(kwargs).
ExecuteArguments(kwargs) == [pos |-> <<PyKwargs(kwargs)>>, kw |-> {}]

\* Lines 32-33: the Tool that tool_from_stackone returned is invoked; its
\* closure still holds stackone_tool. execute returns a value or raises.
implementation ==
    /\ op = "tool_from_stackone"
    /\ pc = "done"
    /\ outcome.kind = "returned"
    /\ \E kwargs \in KwargsInputs :
          /\ args' = [args EXCEPT !.kwargs = kwargs]
          /\ \/ \E result \in ExecuteResults :
                   /\ calls' = << [CallOn(PyRef(stackone_tool[1].name), "execute",
                                          ExecuteArguments(kwargs).pos,
                                          ExecuteArguments(kwargs).kw)
                                      EXCEPT !.ret = result] >>
                   /\ outcome' = Returned(<<result>>)
             \/ /\ calls' = << CallOn(PyRef(stackone_tool[1].name), "execute",
                                      ExecuteArguments(kwargs).pos,
                                      ExecuteArguments(kwargs).kw) >>
                /\ outcome' = Raised("StackOneError", "execute failed")
    /\ op' = "implementation"
    /\ pc' = "done"
    /\ UNCHANGED <<actions, fetched_tools, stackone_tool, pydantic_tools, toolset, environ>>
    /\ UNCHANGED <<utility_tools, installed, modules>>

\* The function has returned or raised: its frame is gone, nothing is kept.
Finish ==
    /\ pc = "done"
    /\ op' = "idle"
    /\ pc' = "idle"
    /\ args' = NoArgs
    /\ actions' = PyNone
    /\ fetched_tools' = <<>>
    /\ stackone_tool' = <<>>
    /\ pydantic_tools' = <<>>
    /\ utility_tools' = <<>>
    /\ outcome' = NoOutcome
    /\ toolset' = NoToolset
    /\ calls' = <<>>
    /\ environ' = Unread
    /\ UNCHANGED <<installed, modules>>

\* ------------------------------------------- search_tool and execute_tool
\* What tools.utility_tools(...) can return: the SDK's meta-tool collection.
UtilityCollections == {<<>>, <<ToolSearch>>, <<ToolExecute>>, <<ToolSearch, ToolExecute>>}

\* A StackOne Tools collection as the object a method is called on or that is
\* passed along: known by the names of its tools.
ToolsObject(tools) ==
    [PyRef("Tools") EXCEPT !.l = [i \in 1..Len(tools) |-> tools[i].name]]

\* Lines 94 and 116: the names looked up in the utility collection.
SearchToolName == "tool_search"

\* As ExecuteToolName, copied from search_tool without changing the name.
ExecuteToolName_as_search == SearchToolName

ExecuteToolName == "tool_execute"

\* Lines 96 and 118: the ValueError messages.
SearchNotFoundMessage == "tool_search not found in StackOne utility tools"
ExecuteNotFoundMessage == "tool_execute not found in StackOne utility tools"

\* As UtilityToolsKwargs, leaving hybrid_alpha out when it is None.
UtilityToolsKwargs_skip_none(hybrid_alpha) ==
    IF hybrid_alpha = PyNone THEN {} ELSE {Kw("hybrid_alpha", hybrid_alpha)}

\* Line 93: the keyword arguments of tools.utility_tools(...) in search_tool.
UtilityToolsKwargs(hybrid_alpha) == {Kw("hybrid_alpha", hybrid_alpha)}

\* Line 93: tools.utility_tools(hybrid_alpha=hybrid_alpha), then line 94.
SearchToolCalls(tools, hybrid_alpha) ==
    << CallOn(ToolsObject(tools), "utility_tools", <<>>, UtilityToolsKwargs(hybrid_alpha)),
       CallOn(PyRef("utility_tools"), "get_tool", <<PyStr(SearchToolName)>>, {}) >>

\* Line 115: tools.utility_tools(), then line 116.
ExecuteToolCalls(tools) ==
    << CallOn(ToolsObject(tools), "utility_tools", <<>>, {}),
       CallOn(PyRef("utility_tools"), "get_tool", <<PyStr(ExecuteToolName)>>, {}) >>

\* Lines 75-98: search_tool(tools, hybrid_alpha=...) called on its own.
search_tool ==
    /\ op = "idle"
    /\ "pydantic_ai.ext.stackone" \in modules
    /\ \E tools \in Fetches, hybrid_alpha \in HybridAlphas, u \in UtilityCollections :
          LET search == get_tool(u, SearchToolName)
          IN /\ args' = [NoArgs EXCEPT !.hybrid_alpha = hybrid_alpha]
             /\ fetched_tools' = tools
             /\ utility_tools' = u
             /\ stackone_tool' = search
             /\ IF search = <<>>
                THEN /\ calls' = SearchToolCalls(tools, hybrid_alpha)
                     /\ outcome' = Raised("ValueError", SearchNotFoundMessage)
                ELSE \/ /\ calls' = SearchToolCalls(tools, hybrid_alpha)
                                     \o WrapCalls(search[1])
                        /\ outcome' = Returned(<<_tool_from_stackone_tool(search[1])>>)
                     \/ /\ calls' = SearchToolCalls(tools, hybrid_alpha)
                                     \o WrapFailedCalls(search[1])
                        /\ outcome' = WrapFailure
    /\ op' = "search_tool"
    /\ pc' = "done"
    /\ UNCHANGED <<actions, pydantic_tools, toolset, environ, installed, modules>>

\* Lines 101-120: execute_tool(tools) called on its own.
execute_tool ==
    /\ op = "idle"
    /\ "pydantic_ai.ext.stackone" \in modules
    /\ \E tools \in Fetches, u \in UtilityCollections :
          LET execute == get_tool(u, ExecuteToolName)
          IN /\ fetched_tools' = tools
             /\ utility_tools' = u
             /\ stackone_tool' = execute
             /\ IF execute = <<>>
                THEN /\ calls' = ExecuteToolCalls(tools)
                     /\ outcome' = Raised("ValueError", ExecuteNotFoundMessage)
                ELSE \/ /\ calls' = ExecuteToolCalls(tools) \o WrapCalls(execute[1])
                        /\ outcome' = Returned(<<_tool_from_stackone_tool(execute[1])>>)
                     \/ /\ calls' = ExecuteToolCalls(tools) \o WrapFailedCalls(execute[1])
                        /\ outcome' = WrapFailure
    /\ op' = "execute_tool"
    /\ pc' = "done"
    /\ UNCHANGED <<args, actions, pydantic_tools, toolset, environ, installed, modules>>

\* ----------------------------------------------------------- feedback_tool
\* As FeedbackApiKey, never falling back to the environment variable.
FeedbackApiKey_ignore_env(api_key, env) == api_key

\* Lines 148-155: the API key feedback_tool uses (None: it raises ValueError).
FeedbackApiKey(api_key, env) == IF api_key = None THEN env ELSE api_key

\* Line 145: the ImportError's message (its backquotes written as quotes).
FeedbackImportMessage ==
    "Please install 'stackone-ai' with feedback support to use the feedback tool."

\* Lines 153-155: the ValueError's message.
ApiKeyRequiredMessage ==
    "API key is required. Provide it as an argument or set STACKONE_API_KEY environment variable."

\* Lines 157-161: the keyword arguments of create_feedback_tool(...).
CreateFeedbackKwargs(api_key, account_id, base_url) ==
    { Kw("api_key", PyOpt(api_key)), Kw("account_id", PyOpt(account_id)) }
      \cup (IF Truthy(base_url) THEN {Kw("base_url", PyStr(base_url))} ELSE {})

\* What the environment variable STACKONE_API_KEY can hold (None: unset).
EnvironValues == {None, "", "env-key"}

\* Lines 123-163: feedback_tool(api_key=, account_id=, base_url=) called on its
\* own, from the import of create_feedback_tool to the wrapped Tool.
feedback_tool ==
    /\ op = "idle"
    /\ "pydantic_ai.ext.stackone" \in modules
    /\ \E api_key \in ApiKeys, account_id \in AccountIds, base_url \in BaseUrls :
          /\ args' = [NoArgs EXCEPT !.api_key = api_key, !.account_id = account_id,
                                    !.base_url = base_url]
          /\ \/ \* line 145: stackone_ai.feedback.tool cannot be imported
                /\ outcome' = Raised("ImportError", FeedbackImportMessage)
                /\ UNCHANGED <<calls, stackone_tool, environ>>
             \/ \* lines 148-163; the variable is read only when api_key is None
                /\ IF api_key = None
                   THEN environ' \in EnvironValues
                   ELSE UNCHANGED environ
                /\ LET key == FeedbackApiKey(api_key, environ')
                   IN IF key = None
                      THEN /\ outcome' = Raised("ValueError", ApiKeyRequiredMessage)
                           /\ UNCHANGED <<calls, stackone_tool>>
                      ELSE LET created == << Call("create_feedback_tool", <<>>,
                                                   CreateFeedbackKwargs(key, account_id,
                                                                        base_url)) >>
                           IN /\ stackone_tool' = <<FeedbackTool>>
                              /\ \/ /\ calls' = created \o WrapCalls(FeedbackTool)
                                    /\ outcome' =
                                           Returned(<<_tool_from_stackone_tool(FeedbackTool)>>)
                                 \/ /\ calls' = created \o WrapFailedCalls(FeedbackTool)
                                    /\ outcome' = WrapFailure
    /\ op' = "feedback_tool"
    /\ pc' = "done"
    /\ UNCHANGED <<actions, fetched_tools, pydantic_tools, utility_tools, toolset,
                   installed, modules>>

\* --------------------------------------------------- StackOneToolset.__init__
\* Lines 226-229: the filter handed to fetch_tools.
\* list(x) of a sequence: a list of its elements, in order.
list(x) == PyList(x.l)

\* As ComputeActions, with `if tools:` for `if tools is not None`.
ComputeActions_if_tools(tools, filter_pattern) ==
    IF tools # PyNone /\ tools.l # <<>>
    THEN list(tools)
    ELSE IF filter_pattern.kind = "str"
         THEN PyList(<<filter_pattern.s>>)
         ELSE filter_pattern

ComputeActions(tools, filter_pattern) ==
    IF tools # PyNone
    THEN list(tools)
    ELSE IF filter_pattern.kind = "str"
         THEN PyList(<<filter_pattern.s>>)
         ELSE filter_pattern

\* As AfterFetch, with the test of include_utility_tools left out.
AfterFetch_always_direct(include_utility_tools) == "direct"

\* Line 235: where __init__ goes after the fetch, utility-tools or direct mode.
AfterFetch(include_utility_tools) == IF include_utility_tools THEN "search" ELSE "direct"

\* As DirectLoopTurn, with insert(0, ...) for append(...).
DirectLoopTurn_insert_first(tools, st) == <<_tool_from_stackone_tool(st)>> \o tools

\* Line 242: pydantic_tools.append(_tool_from_stackone_tool(stackone_tool)).
DirectLoopTurn(tools, st) == Append(tools, _tool_from_stackone_tool(st))

\* As FeedbackToolKwargs, with base_url not handed on.
FeedbackToolKwargs_no_base_url(api_key, account_id, base_url) ==
    { Kw("api_key", PyOpt(api_key)), Kw("account_id", PyOpt(account_id)) }

\* Lines 246-250: the keyword arguments __init__ calls feedback_tool with.
FeedbackToolKwargs(api_key, account_id, base_url) ==
    { Kw("api_key", PyOpt(api_key)), Kw("account_id", PyOpt(account_id)),
      Kw("base_url", PyOpt(base_url)) }

\* The tools argument (Sequence[str] | None): None, a list, or a tuple.
TupleNames == {"ats_get_job"}
ToolsArgs ==
    {PyNone} \cup {PyList(l) : l \in SeqUpTo(ToolNames, MaxTools)}
             \cup {PyTuple(l) : l \in SeqUpTo(TupleNames, MaxTools)}
FilterPatterns ==
    {PyNone} \cup {PyStr(p) : p \in Patterns}
             \cup {PyList(l) : l \in SeqUpTo(Patterns, MaxPatterns)}

\* Lines 191-229: the call, the construction of the SDK client, the filter.
StackOneToolset_call ==
    /\ op = "idle"
    /\ "pydantic_ai.ext.stackone" \in modules
    /\ \E tools \in ToolsArgs, account_id \in AccountIds, api_key \in ApiKeys,
          base_url \in BaseUrls, filter_pattern \in FilterPatterns,
          include_utility_tools \in BOOLEAN, include_feedback_tool \in BOOLEAN,
          hybrid_alpha \in HybridAlphas, id \in ToolsetIds :
          /\ args' = [NoArgs EXCEPT !.tools = tools, !.account_id = account_id,
                                    !.api_key = api_key, !.base_url = base_url,
                                    !.filter_pattern = filter_pattern,
                                    !.include_utility_tools = include_utility_tools,
                                    !.include_feedback_tool = include_feedback_tool,
                                    !.hybrid_alpha = hybrid_alpha, !.id = id]
          /\ calls' = <<Call("StackOneToolSet", <<>>,
                             ClientKwargs(api_key, account_id, base_url))>>
          /\ actions' = ComputeActions(tools, filter_pattern)
    /\ op' = "StackOneToolset"
    /\ pc' = "fetch"
    /\ UNCHANGED <<fetched_tools, stackone_tool, pydantic_tools, outcome, toolset, environ>>
    /\ UNCHANGED <<utility_tools, installed, modules>>

\* Lines 231-233: fetched_tools = stackone_toolset.fetch_tools(actions=actions);
\* the SDK returns a collection or raises.
StackOneToolset_fetch ==
    /\ op = "StackOneToolset"
    /\ pc = "fetch"
    /\ calls' = Append(calls, FetchCall(actions))
    /\ \/ \E fetched \in Fetches :
             /\ fetched_tools' = fetched
             /\ pc' = AfterFetch(args.include_utility_tools)
             /\ UNCHANGED outcome
       \/ /\ outcome' = Raised("StackOneError", "fetch_tools failed")
          /\ pc' = AfterRaise(pc)
          /\ UNCHANGED fetched_tools
    /\ UNCHANGED <<op, args, actions, stackone_tool, pydantic_tools, toolset, environ>>
    /\ UNCHANGED <<utility_tools, installed, modules>>

\* Line 237: pydantic_tools.append(search_tool(fetched_tools, hybrid_alpha=hybrid_alpha)).
StackOneToolset_search ==
    /\ op = "StackOneToolset"
    /\ pc = "search"
    /\ \E u \in UtilityCollections :
          LET search == get_tool(u, SearchToolName)
              made == << Call("search_tool", <<ToolsObject(fetched_tools)>>,
                              {Kw("hybrid_alpha", args.hybrid_alpha)}) >>
                      \o SearchToolCalls(fetched_tools, args.hybrid_alpha)
          IN /\ stackone_tool' = search
             /\ IF search = <<>>
                THEN /\ calls' = calls \o made
                     /\ outcome' = Raised("ValueError", SearchNotFoundMessage)
                     /\ pc' = AfterRaise(pc)
                     /\ UNCHANGED pydantic_tools
                ELSE \/ /\ calls' = calls \o made \o WrapCalls(search[1])
                        /\ pydantic_tools' =
                               Append(pydantic_tools, _tool_from_stackone_tool(search[1]))
                        /\ pc' = "execute"
                        /\ UNCHANGED outcome
                     \/ /\ calls' = calls \o made \o WrapFailedCalls(search[1])
                        /\ outcome' = WrapFailure
                        /\ pc' = AfterRaise(pc)
                        /\ UNCHANGED pydantic_tools
    /\ UNCHANGED <<op, args, actions, fetched_tools, toolset, environ>>
    /\ UNCHANGED <<utility_tools, installed, modules>>

\* Line 238: pydantic_tools.append(execute_tool(fetched_tools)).
StackOneToolset_execute ==
    /\ op = "StackOneToolset"
    /\ pc = "execute"
    /\ \E u \in UtilityCollections :
          LET execute == get_tool(u, ExecuteToolName)
              made == << Call("execute_tool", <<ToolsObject(fetched_tools)>>, {}) >>
                      \o ExecuteToolCalls(fetched_tools)
          IN /\ stackone_tool' = execute
             /\ IF execute = <<>>
                THEN /\ calls' = calls \o made
                     /\ outcome' = Raised("ValueError", ExecuteNotFoundMessage)
                     /\ pc' = AfterRaise(pc)
                     /\ UNCHANGED pydantic_tools
                ELSE \/ /\ calls' = calls \o made \o WrapCalls(execute[1])
                        /\ pydantic_tools' =
                               Append(pydantic_tools, _tool_from_stackone_tool(execute[1]))
                        /\ pc' = "feedback"
                        /\ UNCHANGED outcome
                     \/ /\ calls' = calls \o made \o WrapFailedCalls(execute[1])
                        /\ outcome' = WrapFailure
                        /\ pc' = AfterRaise(pc)
                        /\ UNCHANGED pydantic_tools
    /\ UNCHANGED <<op, args, actions, fetched_tools, toolset, environ>>
    /\ UNCHANGED <<utility_tools, installed, modules>>

\* Lines 241-242: one turn of `for stackone_tool in fetched_tools`, or its end.
StackOneToolset_direct ==
    /\ op = "StackOneToolset"
    /\ pc = "direct"
    /\ LET i == Len(pydantic_tools) + 1
       IN IF i <= Len(fetched_tools)
          THEN /\ stackone_tool' = <<fetched_tools[i]>>
               /\ \/ /\ calls' = calls \o WrapCalls(fetched_tools[i])
                     /\ pydantic_tools' = DirectLoopTurn(pydantic_tools, fetched_tools[i])
                     /\ UNCHANGED <<pc, outcome>>
                  \/ /\ calls' = calls \o WrapFailedCalls(fetched_tools[i])
                     /\ outcome' = WrapFailure
                     /\ pc' = AfterRaise(pc)
                     /\ UNCHANGED pydantic_tools
          ELSE /\ pc' = "feedback"
               /\ UNCHANGED <<stackone_tool, calls, pydantic_tools, outcome>>
    /\ UNCHANGED <<op, args, actions, fetched_tools, toolset, environ>>
    /\ UNCHANGED <<utility_tools, installed, modules>>

\* Lines 244-251 with feedback_tool, lines 142-163.
StackOneToolset_feedback ==
    /\ op = "StackOneToolset"
    /\ pc = "feedback"
    /\ IF ~args.include_feedback_tool
       THEN /\ pc' = "super"
            /\ UNCHANGED <<calls, pydantic_tools, outcome, stackone_tool, environ>>
       ELSE LET called == Call("feedback_tool", <<>>,
                               FeedbackToolKwargs(args.api_key, args.account_id,
                                                  args.base_url))
            IN \/ \* line 145: stackone_ai.feedback.tool cannot be imported
                  /\ calls' = Append(calls, called)
                  /\ outcome' = Raised("ImportError", FeedbackImportMessage)
                  /\ pc' = AfterRaise(pc)
                  /\ UNCHANGED <<pydantic_tools, stackone_tool, environ>>
               \/ \* lines 148-163; the variable is read only when api_key is None
                  /\ IF args.api_key = None
                     THEN environ' \in EnvironValues
                     ELSE UNCHANGED environ
                  /\ LET api_key == FeedbackApiKey(args.api_key, environ')
                     IN IF api_key = None
                        THEN /\ calls' = Append(calls, called)
                             /\ outcome' = Raised("ValueError", ApiKeyRequiredMessage)
                             /\ pc' = AfterRaise(pc)
                             /\ UNCHANGED <<pydantic_tools, stackone_tool>>
                        ELSE LET created ==
                                     << called,
                                        Call("create_feedback_tool", <<>>,
                                             CreateFeedbackKwargs(api_key, args.account_id,
                                                                  args.base_url)) >>
                             IN /\ stackone_tool' = <<FeedbackTool>>
                                /\ \/ /\ calls' = calls \o created \o WrapCalls(FeedbackTool)
                                      /\ pydantic_tools' =
                                             Append(pydantic_tools,
                                                    _tool_from_stackone_tool(FeedbackTool))
                                      /\ pc' = "super"
                                      /\ UNCHANGED outcome
                                   \/ /\ calls' = calls \o created
                                                        \o WrapFailedCalls(FeedbackTool)
                                      /\ outcome' = WrapFailure
                                      /\ pc' = AfterRaise(pc)
                                      /\ UNCHANGED pydantic_tools
    /\ UNCHANGED <<op, args, actions, fetched_tools, toolset>>
    /\ UNCHANGED <<utility_tools, installed, modules>>

\* Line 253: super().__init__(pydantic_tools, id=id).
StackOneToolset_super ==
    /\ op = "StackOneToolset"
    /\ pc = "super"
    /\ calls' = Append(calls, Call("FunctionToolset.__init__",
                                   <<PyList([i \in 1..Len(pydantic_tools) |->
                                                pydantic_tools[i].name])>>,
                                   {Kw("id", PyOpt(args.id))}))
    /\ toolset' = [initialised |-> TRUE, tools |-> pydantic_tools, id |-> args.id]
    /\ outcome' = Returned(<<>>)
    /\ pc' = "done"
    /\ UNCHANGED <<op, args, actions, fetched_tools, stackone_tool, pydantic_tools, environ>>
    /\ UNCHANGED <<utility_tools, installed, modules>>

Next ==
    \/ import_ext
    \/ import_stackone
    \/ tool_from_stackone_call
    \/ tool_from_stackone_fetch
    \/ tool_from_stackone_lookup
    \/ tool_from_stackone_wrap
    \/ implementation
    \/ feedback_tool
    \/ search_tool
    \/ execute_tool
    \/ StackOneToolset_call
    \/ StackOneToolset_fetch
    \/ StackOneToolset_search
    \/ StackOneToolset_execute
    \/ StackOneToolset_direct
    \/ StackOneToolset_feedback
    \/ StackOneToolset_super
    \/ Finish

Spec == Init /\ [][Next]_vars

\* ================================================================== claims
\* The calls recorded so far whose callee is fn.
CallsTo(fn) == {i \in DOMAIN calls : calls[i].fn = fn}

\* The value the recorded call c gives keyword k, as a set (empty: not given).
KwValues(c, k) == {a.v : a \in {b \in c.kw : b.k = k}}

\* C1: every StackOne tool tool_from_stackone finds comes back as a Tool whose
\* name is the StackOne tool's name, whose description is the StackOne tool's
\* description ('' when that is None or empty) and whose JSON schema is
\* to_openai_function()['function']['parameters'] of that tool (unless
\* to_openai_function raised, which ends the call with its exception).
C1_WrappedFields ==
    (/\ op = "tool_from_stackone"
     /\ pc = "done"
     /\ stackone_tool # <<>>
     /\ outcome # WrapFailure) =>
        /\ outcome.kind = "returned"
        /\ Len(outcome.value) = 1
        /\ LET st == stackone_tool[1]
               t == outcome.value[1]
           IN /\ t.name = st.name
              /\ t.description =
                     (IF st.description = None \/ st.description = ""
                      THEN "" ELSE st.description)
              /\ t.json_schema = to_openai_function(st).function.parameters
              /\ t.json_schema \in {SchemaLimit, SchemaEmpty}

\* C1 witness: a found tool whose description is None has been wrapped.
C1_Witness ==
    /\ op = "tool_from_stackone"
    /\ outcome.kind = "returned"
    /\ stackone_tool # <<>>
    /\ stackone_tool[1].description = None

\* C2: when get_tool(tool_name) returns None, tool_from_stackone raises
\* ValueError "Tool '<tool_name>' not found in StackOne", returns no Tool, and
\* never reaches to_openai_function or Tool.from_schema.
C2_NotFoundRaises ==
    (op = "tool_from_stackone" /\ CallsTo("get_tool") # {} /\ stackone_tool = <<>>) =>
        /\ outcome.kind = "raised"
        /\ outcome.exc = "ValueError"
        /\ outcome.msg = "Tool '" \o args.tool_name \o "' not found in StackOne"
        /\ outcome.value = <<>>
        /\ CallsTo("to_openai_function") = {}
        /\ CallsTo("Tool.from_schema") = {}

\* C2 witness: the lookup of a name the fetched, non-empty collection lacks.
C2_Witness ==
    /\ op = "tool_from_stackone"
    /\ CallsTo("get_tool") # {}
    /\ stackone_tool = <<>>
    /\ fetched_tools # <<>>
    /\ outcome.kind = "raised"

\* C3: tool_from_stackone and StackOneToolset each construct the SDK client
\* exactly once, with keywords api_key and account_id set to the caller's values
\* (None when not given) and a base_url keyword exactly when the caller gave a
\* non-empty base_url.
C3_ClientConstruction ==
    (op \in {"tool_from_stackone", "StackOneToolset"}) =>
        /\ Cardinality(CallsTo("StackOneToolSet")) = 1
        /\ LET c == calls[CHOOSE i \in CallsTo("StackOneToolSet") : TRUE]
               given == args.base_url # None /\ args.base_url # ""
           IN /\ c.pos = <<>>
              /\ KwValues(c, "api_key") = {PyOpt(args.api_key)}
              /\ KwValues(c, "account_id") = {PyOpt(args.account_id)}
              /\ KwValues(c, "base_url") = (IF given THEN {PyStr(args.base_url)} ELSE {})
              /\ {a.k : a \in c.kw} =
                     {"api_key", "account_id"} \cup (IF given THEN {"base_url"} ELSE {})
              /\ Cardinality(c.kw) = (IF given THEN 3 ELSE 2)

\* C3 witness: a toolset constructed with the empty base_url and no account_id.
C3_Witness ==
    /\ op = "StackOneToolset"
    /\ pc = "done"
    /\ args.base_url = ""
    /\ args.account_id = None

\* C4: tool_from_stackone(tool_name) calls the client's get_tools exactly
\* once, with the one-element list [tool_name] as its positional argument, and
\* then get_tool exactly once with tool_name.
C4_GetToolsPositional ==
    (op = "tool_from_stackone" /\ pc = "done" /\ outcome.exc # "StackOneError") =>
        /\ Cardinality(CallsTo("get_tools")) = 1
        /\ \A i \in CallsTo("get_tools") :
               /\ calls[i].pos = <<PyList(<<args.tool_name>>)>>
               /\ calls[i].kw = {}
        /\ Cardinality(CallsTo("get_tool")) = 1
        /\ \A i \in CallsTo("get_tool") :
               /\ calls[i].pos = <<PyStr(args.tool_name)>>
               /\ \A j \in CallsTo("get_tools") : j < i

\* C5: constructing StackOneToolset with tools=[n1, ..., nk] calls
\* tool_from_stackone exactly k times, once per name, each time with the
\* toolset's account_id, api_key and base_url.
C5_ToolFromStackOnePerName ==
    (op = "StackOneToolset" /\ args.tools.kind = "list" /\ outcome.kind = "returned") =>
        /\ Cardinality(CallsTo("tool_from_stackone")) = Len(args.tools.l)
        /\ \A n \in 1..Len(args.tools.l) :
               \E i \in CallsTo("tool_from_stackone") :
                   /\ calls[i].pos = <<PyStr(args.tools.l[n])>>
                   /\ calls[i].kw = { Kw("account_id", PyOpt(args.account_id)),
                                      Kw("api_key", PyOpt(args.api_key)),
                                      Kw("base_url", PyOpt(args.base_url)) }

\* C6: with no tools argument and filter_pattern a single string p, the
\* client's get_tools is called exactly once and its argument is the string p.
C6_StringFilterUnwrapped ==
    (/\ op = "StackOneToolset"
     /\ args.tools = PyNone
     /\ args.filter_pattern.kind = "str"
     /\ pc # "fetch") =>
        /\ Cardinality(CallsTo("get_tools")) = 1
        /\ \A i \in CallsTo("get_tools") :
               /\ calls[i].pos = <<PyStr(args.filter_pattern.s)>>
               /\ calls[i].kw = {}

\* C7: with no tools argument, the client's get_tools is called exactly once
\* with the filter unchanged: the same list when filter_pattern is a list, None
\* when filter_pattern is not given.
C7_ListFilterUnchanged ==
    (/\ op = "StackOneToolset"
     /\ args.tools = PyNone
     /\ args.filter_pattern.kind \in {"list", "NoneType"}
     /\ pc # "fetch") =>
        /\ Cardinality(CallsTo("get_tools")) = 1
        /\ \A i \in CallsTo("get_tools") :
               /\ calls[i].pos = <<args.filter_pattern>>
               /\ calls[i].kw = {}

\* C8: in direct mode the list handed to FunctionToolset holds, before any
\* feedback tool, exactly one wrapped Tool per fetched tool, in the fetch's
\* order and with the same names; an empty fetch gives an empty list.
C8_DirectModeOneToOne ==
    /\ (op = "StackOneToolset" /\ ~args.include_utility_tools /\ pc = "feedback") =>
           /\ Len(pydantic_tools) = Len(fetched_tools)
           /\ \A i \in 1..Len(fetched_tools) :
                  /\ pydantic_tools[i].name = fetched_tools[i].name
                  /\ pydantic_tools[i].function.stackone_tool = fetched_tools[i]
    /\ (op = "StackOneToolset" /\ ~args.include_utility_tools /\ toolset.initialised) =>
           /\ Len(toolset.tools) =
                  Len(fetched_tools) + (IF args.include_feedback_tool THEN 1 ELSE 0)
           /\ \A i \in 1..Len(fetched_tools) :
                  /\ toolset.tools[i].name = fetched_tools[i].name
                  /\ toolset.tools[i].function.stackone_tool = fetched_tools[i]

\* C8 witness: a direct-mode toolset built from a fetch of two tools.
C8_Witness ==
    /\ op = "StackOneToolset"
    /\ ~args.include_utility_tools
    /\ toolset.initialised
    /\ Len(fetched_tools) = 2

\* C9: with include_utility_tools=True the toolset exposes tool_search and
\* tool_execute, in that order, instead of the fetched tools: none of the
\* fetched tools is wrapped or added, however many the fetch returned.
C9_UtilityModeOnly ==
    (op = "StackOneToolset" /\ args.include_utility_tools /\ toolset.initialised) =>
        /\ Len(toolset.tools) = 2 + (IF args.include_feedback_tool THEN 1 ELSE 0)
        /\ toolset.tools[1].name = "tool_search"
        /\ toolset.tools[1].function.stackone_tool = ToolSearch
        /\ toolset.tools[2].name = "tool_execute"
        /\ toolset.tools[2].function.stackone_tool = ToolExecute
        /\ \A i \in 1..Len(toolset.tools), j \in 1..Len(fetched_tools) :
               /\ toolset.tools[i].function.stackone_tool # fetched_tools[j]
               /\ toolset.tools[i].name # fetched_tools[j].name
        /\ \A i \in CallsTo("to_openai_function"), j \in 1..Len(fetched_tools) :
               calls[i].pos # <<PyRef(fetched_tools[j].name)>>

\* C9 witness: a utility-mode toolset built although the fetch returned two tools.
C9_Witness ==
    /\ op = "StackOneToolset"
    /\ args.include_utility_tools
    /\ toolset.initialised
    /\ Len(fetched_tools) = 2

\* The places of the toolset's tool list that hold the feedback tool.
FeedbackPlaces ==
    {i \in 1..Len(toolset.tools) : toolset.tools[i].function.stackone_tool = FeedbackTool}

\* C10: the feedback tool is in the toolset if and only if
\* include_feedback_tool=True; it is then added exactly once, after all the
\* other tools, in direct and in utility-tools mode, and it is built with the
\* toolset's api_key, account_id and base_url.
C10_FeedbackToolLast ==
    (op = "StackOneToolset" /\ toolset.initialised) =>
        /\ args.include_feedback_tool <=> FeedbackPlaces # {}
        /\ args.include_feedback_tool =>
               /\ FeedbackPlaces = {Len(toolset.tools)}
               /\ Cardinality(CallsTo("feedback_tool")) = 1
               /\ \A i \in CallsTo("feedback_tool") :
                      /\ calls[i].pos = <<>>
                      /\ KwValues(calls[i], "api_key") = {PyOpt(args.api_key)}
                      /\ KwValues(calls[i], "account_id") = {PyOpt(args.account_id)}
                      /\ KwValues(calls[i], "base_url") = {PyOpt(args.base_url)}
               /\ Cardinality(CallsTo("create_feedback_tool")) = 1
               /\ \A i \in CallsTo("create_feedback_tool") :
                      /\ KwValues(calls[i], "account_id") = {PyOpt(args.account_id)}
                      /\ args.api_key # None =>
                             KwValues(calls[i], "api_key") = {PyStr(args.api_key)}
                      /\ Truthy(args.base_url) =>
                             KwValues(calls[i], "base_url") = {PyStr(args.base_url)}
        /\ ~args.include_feedback_tool =>
               /\ CallsTo("feedback_tool") = {}
               /\ CallsTo("create_feedback_tool") = {}

\* C10 witness: a utility-mode toolset with the feedback tool and a base_url.
C10_Witness ==
    /\ op = "StackOneToolset"
    /\ toolset.initialised
    /\ args.include_feedback_tool
    /\ args.include_utility_tools
    /\ Truthy(args.base_url)
    /\ Len(toolset.tools) = 3

\* C11: invoking the callable of a wrapped tool with keyword arguments calls
\* the underlying StackOne tool's execute exactly once, with one dict holding
\* exactly those keyword arguments (the empty dict when there are none), and
\* returns execute's result unchanged.
C11_ImplementationExecutes ==
    (op = "implementation") =>
        /\ Cardinality(CallsTo("execute")) = 1
        /\ Len(calls) = 1
        /\ calls[1].on = PyRef(stackone_tool[1].name)
        /\ calls[1].kw = {}
        /\ Len(calls[1].pos) = 1
        /\ calls[1].pos[1].kind = "dict"
        /\ calls[1].pos[1].m = args.kwargs
        /\ outcome.kind = "returned" => outcome.value = <<calls[1].ret>>
        /\ outcome.kind = "raised" => outcome.exc = "StackOneError"

\* C11 witness: an invocation with two keyword arguments has returned.
C11_Witness ==
    /\ op = "implementation"
    /\ outcome.kind = "returned"
    /\ Cardinality(args.kwargs) = 2

\* C12: when stackone_ai cannot be imported, importing pydantic_ai.ext.stackone
\* raises ImportError with the message telling the user to install stackone-ai,
\* while importing pydantic_ai.ext succeeds and leaves the package imported
\* without its stackone submodule.
C12_ImportGuard ==
    ~installed =>
        /\ "pydantic_ai.ext.stackone" \notin modules
        /\ (op = "import pydantic_ai.ext.stackone") =>
               /\ outcome = Raised("ImportError", InstallMessage)
               /\ "pydantic_ai.ext" \in modules
        /\ (op = "import pydantic_ai.ext") =>
               /\ outcome.kind = "returned"
               /\ "pydantic_ai.ext" \in modules

\* C12 witness: without the SDK, the package was imported first and the import
\* of the submodule has then raised.
C12_Witness ==
    /\ ~installed
    /\ op = "import pydantic_ai.ext.stackone"
    /\ outcome.kind = "raised"
    /\ "pydantic_ai.ext" \in modules

\* feedback_tool has run to its end or to its exception, on its own or from
\* StackOneToolset.__init__, and its import of create_feedback_tool succeeded.
FeedbackToolRan ==
    /\ \/ op = "feedback_tool" /\ pc = "done"
       \/ op = "StackOneToolset" /\ CallsTo("feedback_tool") # {}
    /\ ~(outcome.kind = "raised" /\ outcome.exc = "ImportError")

\* C13: feedback_tool uses a given api_key as is (the environment variable is
\* not read); with api_key None it uses the value of STACKONE_API_KEY; with
\* api_key None and the variable unset it raises ValueError and never calls
\* create_feedback_tool. So StackOneToolset(include_feedback_tool=True) without
\* key and variable raises ValueError after the client was built and the tools
\* were fetched, and its FunctionToolset part is never initialised.
C13_FeedbackApiKeyResolution ==
    FeedbackToolRan =>
        /\ args.api_key # None =>
               /\ environ = Unread
               /\ Cardinality(CallsTo("create_feedback_tool")) = 1
               /\ \A i \in CallsTo("create_feedback_tool") :
                      KwValues(calls[i], "api_key") = {PyStr(args.api_key)}
        /\ args.api_key = None /\ environ # None =>
               /\ environ \in EnvironValues
               /\ Cardinality(CallsTo("create_feedback_tool")) = 1
               /\ \A i \in CallsTo("create_feedback_tool") :
                      KwValues(calls[i], "api_key") = {PyStr(environ)}
        /\ args.api_key = None /\ environ = None =>
               /\ outcome = Raised("ValueError", ApiKeyRequiredMessage)
               /\ CallsTo("create_feedback_tool") = {}
               /\ op = "StackOneToolset" =>
                      /\ pc = "done"
                      /\ calls[1].fn = "StackOneToolSet"
                      /\ calls[2] = FetchCall(actions)
                      /\ toolset = NoToolset

\* C13 witness: a toolset with the feedback tool, without key and variable,
\* raised after it had fetched a tool.
C13_Witness ==
    /\ op = "StackOneToolset"
    /\ args.include_feedback_tool
    /\ args.api_key = None
    /\ environ = None
    /\ outcome.kind = "raised"
    /\ Len(fetched_tools) > 0
    /\ CallsTo("feedback_tool") # {}

\* C14: search_tool raises ValueError('tool_search not found in StackOne utility
\* tools') when the utility collection has no tool_search, execute_tool raises
\* ValueError('tool_execute not found in StackOne utility tools') when it has
\* no tool_execute; no Tool is then built or returned. Otherwise the Tool they
\* return wraps exactly the utility tool of that name, unless wrapping it
\* raises. Checked for the two functions on their own and as
\* StackOneToolset.__init__ calls them.
C14_UtilityToolLookup ==
    /\ op = "search_tool" =>
          LET found == get_tool(utility_tools, "tool_search")
          IN IF found = <<>>
             THEN /\ outcome = Raised("ValueError",
                                      "tool_search not found in StackOne utility tools")
                  /\ CallsTo("to_openai_function") = {}
                  /\ CallsTo("Tool.from_schema") = {}
             ELSE \/ outcome = WrapFailure
                  \/ /\ outcome.kind = "returned"
                     /\ Len(outcome.value) = 1
                     /\ outcome.value[1].name = "tool_search"
                     /\ outcome.value[1].function.stackone_tool = found[1]
    /\ op = "execute_tool" =>
          LET found == get_tool(utility_tools, "tool_execute")
          IN IF found = <<>>
             THEN /\ outcome = Raised("ValueError",
                                      "tool_execute not found in StackOne utility tools")
                  /\ CallsTo("to_openai_function") = {}
                  /\ CallsTo("Tool.from_schema") = {}
             ELSE \/ outcome = WrapFailure
                  \/ /\ outcome.kind = "returned"
                     /\ Len(outcome.value) = 1
                     /\ outcome.value[1].name = "tool_execute"
                     /\ outcome.value[1].function.stackone_tool = found[1]
    /\ op = "StackOneToolset" /\ CallsTo("search_tool") # {} =>
          IF pydantic_tools = <<>>
          THEN \/ /\ outcome = Raised("ValueError",
                                      "tool_search not found in StackOne utility tools")
                  /\ CallsTo("to_openai_function") = {}
                  /\ CallsTo("Tool.from_schema") = {}
               \/ outcome = WrapFailure
          ELSE /\ pydantic_tools[1].name = "tool_search"
               /\ pydantic_tools[1].function.stackone_tool = ToolSearch
    /\ op = "StackOneToolset" /\ CallsTo("execute_tool") # {} =>
          IF Len(pydantic_tools) = 1
          THEN \/ /\ outcome = Raised("ValueError",
                                      "tool_execute not found in StackOne utility tools")
                  /\ Cardinality(CallsTo("to_openai_function")) = 1
                  /\ Cardinality(CallsTo("Tool.from_schema")) = 1
               \/ outcome = WrapFailure
          ELSE /\ pydantic_tools[2].name = "tool_execute"
               /\ pydantic_tools[2].function.stackone_tool = ToolExecute

\* C14 witness: execute_tool, on its own, was given a utility collection that
\* holds tool_search only and has raised.
C14_Witness ==
    /\ op = "execute_tool"
    /\ utility_tools = <<ToolSearch>>
    /\ outcome.kind = "raised"

\* C15: hybrid_alpha reaches the SDK only through search_tool, which calls
\* tools.utility_tools(hybrid_alpha=hybrid_alpha) with the keyword present even
\* when the value is None; execute_tool calls tools.utility_tools() without
\* arguments. A toolset in utility mode calls utility_tools exactly twice, on
\* the collection it fetched, first with hybrid_alpha and then without; in
\* direct mode, and in every other function, utility_tools is never called.
C15_HybridAlphaForwarding ==
    LET U == CallsTo("utility_tools")
        OnFetched(i) == /\ calls[i].on = ToolsObject(fetched_tools)
                        /\ calls[i].pos = <<>>
        WithAlpha(i) == calls[i].kw = {Kw("hybrid_alpha", args.hybrid_alpha)}
    IN /\ \A i \in DOMAIN calls :
              (\E a \in calls[i].kw : a.k = "hybrid_alpha") =>
                  calls[i].fn \in {"utility_tools", "search_tool"}
       /\ op = "search_tool" =>
              /\ U = {1}
              /\ OnFetched(1)
              /\ WithAlpha(1)
       /\ op = "execute_tool" =>
              /\ U = {1}
              /\ OnFetched(1)
              /\ calls[1].kw = {}
       /\ op \notin {"search_tool", "execute_tool", "StackOneToolset"} => U = {}
       /\ op = "StackOneToolset" /\ ~args.include_utility_tools => U = {}
       /\ op = "StackOneToolset" /\ args.include_utility_tools =>
              /\ Cardinality(U) <= 2
              /\ \A i \in U :
                    /\ OnFetched(i)
                    /\ calls[i - 1].fn \in {"search_tool", "execute_tool"}
                    /\ calls[i - 1].pos = <<ToolsObject(fetched_tools)>>
                    /\ IF calls[i - 1].fn = "search_tool"
                       THEN WithAlpha(i) /\ \A j \in U : i <= j
                       ELSE calls[i].kw = {} /\ \A j \in U : j <= i
              /\ CallsTo("execute_tool") # {} => Cardinality(U) = 2
              /\ outcome.kind = "returned" => Cardinality(U) = 2

\* C15 witness: a toolset in utility mode, built without hybrid_alpha from a
\* non-empty fetch, has made its two utility_tools calls and returned.
C15_Witness ==
    /\ op = "StackOneToolset"
    /\ args.include_utility_tools
    /\ args.hybrid_alpha = PyNone
    /\ fetched_tools # <<>>
    /\ outcome.kind = "returned"
    /\ Cardinality(CallsTo("utility_tools")) = 2

\* C16: in StackOneToolset the tools argument takes precedence over
\* filter_pattern: whenever tools is not None, the empty sequence included, the
\* filter handed to the SDK is list(tools), whatever filter_pattern is;
\* filter_pattern decides the filter only when tools is None.
C16_ToolsPrecedence ==
    (op = "StackOneToolset") =>
        /\ args.tools # PyNone =>
               /\ actions.kind = "list"
               /\ actions.l = args.tools.l
        /\ args.tools = PyNone =>
               actions = (IF args.filter_pattern.kind = "str"
                          THEN PyList(<<args.filter_pattern.s>>)
                          ELSE args.filter_pattern)
        /\ \A i \in CallsTo("fetch_tools") : KwValues(calls[i], "actions") = {actions}
        /\ pc # "fetch" => Cardinality(CallsTo("fetch_tools")) = 1

\* C16 witness: a toolset given the empty tuple as tools and a filter_pattern
\* has fetched with the empty list.
C16_Witness ==
    /\ op = "StackOneToolset"
    /\ args.tools = PyTuple(<<>>)
    /\ args.filter_pattern = PyStr("hris_*")
    /\ CallsTo("fetch_tools") # {}
    /\ actions = PyList(<<>>)

\* C17: every call of tool_from_stackone and every construction of
\* StackOneToolset starts by building a new SDK client, with nothing fetched
\* kept from an earlier call; it then makes exactly one fetch on that client,
\* before any tool is wrapped; a fetch or a lookup that fails ends the call at
\* once with the exception, and no later step fetches or builds a client again.
C17_SingleFetch ==
    [][ LET Two == {"tool_from_stackone", "StackOneToolset"}
            Built == {i \in DOMAIN calls' : calls'[i].fn = "StackOneToolSet"}
            Fetched == {i \in DOMAIN calls' : calls'[i].fn = "fetch_tools"}
            Wraps == {i \in DOMAIN calls' :
                         calls'[i].fn \in {"to_openai_function", "Tool.from_schema"}}
        IN /\ (op = "idle" /\ op' \in Two) =>
                  /\ Len(calls') = 1
                  /\ Built = {1}
                  /\ fetched_tools' = <<>>
                  /\ pc' = "fetch"
           /\ (op \in Two /\ pc = "fetch") =>
                  /\ Len(calls') = 2
                  /\ Built = {1}
                  /\ Fetched = {2}
                  /\ outcome'.kind = "raised" =>
                         /\ outcome'.exc = "StackOneError"
                         /\ pc' = "done"
                         /\ fetched_tools' = <<>>
           /\ (op \in Two /\ pc # "fetch" /\ op' = op) =>
                  /\ Built = {1}
                  /\ Fetched = {2}
                  /\ \A i \in Wraps : i > 2
                  /\ fetched_tools' = fetched_tools
           /\ (op = "tool_from_stackone" /\ pc = "lookup") =>
                  /\ Cardinality({i \in DOMAIN calls' : calls'[i].fn = "get_tool"}) = 1
                  /\ stackone_tool' = <<>> =>
                         /\ outcome'.kind = "raised"
                         /\ pc' = "done"
           /\ (op \in Two /\ pc = "done" /\ outcome.kind = "raised") => op' = "idle"
      ]_vars

\* C17 witness: a toolset's only fetch has raised, and the construction ended
\* with that exception right after it.
C17_Witness ==
    /\ op = "StackOneToolset"
    /\ pc = "done"
    /\ outcome = Raised("StackOneError", "fetch_tools failed")
    /\ Len(calls) = 2
    /\ calls[2] = FetchCall(actions)

\* C18: StackOneToolset construction is all-or-nothing. The FunctionToolset
\* initialiser is called at most once, as the last call of a construction that
\* returns, with the complete tool list (one Tool per fetched tool, or the two
\* utility tools, then the feedback tool if asked for). When fetching, wrapping
\* a tool, building a utility tool or building the feedback tool raises, the
\* initialiser is never called and the toolset holds no tool list at all.
C18_AllOrNothing ==
    (op = "StackOneToolset") =>
        LET inits == CallsTo("FunctionToolset.__init__")
            complete == (IF args.include_utility_tools THEN 2 ELSE Len(fetched_tools))
                        + (IF args.include_feedback_tool THEN 1 ELSE 0)
        IN /\ Cardinality(inits) <= 1
           /\ toolset.initialised <=> inits # {}
           /\ outcome.kind = "returned" <=> inits # {}
           /\ pc = "done" => outcome.kind \in {"returned", "raised"}
           /\ inits # {} =>
                  /\ inits = {Len(calls)}
                  /\ pc = "done"
                  /\ toolset.tools = pydantic_tools
                  /\ Len(toolset.tools) = complete
                  /\ calls[Len(calls)].pos =
                         <<PyList([i \in 1..complete |-> toolset.tools[i].name])>>
           /\ outcome.kind = "raised" =>
                  /\ inits = {}
                  /\ toolset = NoToolset
                  /\ pc = "done"

\* C18 witness: in direct mode the first of two fetched tools was wrapped, the
\* wrapping of the second raised, and no toolset was initialised.
C18_Witness ==
    /\ op = "StackOneToolset"
    /\ ~args.include_utility_tools
    /\ Len(fetched_tools) = 2
    /\ Len(pydantic_tools) = 1
    /\ outcome = WrapFailure
    /\ pc = "done"
    /\ toolset = NoToolset

====
